---- MODULE Spec2Model ----
(***************************************************************************)
(* Model of docx_to_mindmap.py: Word/PDF text extraction, outline          *)
(* generation (remote model or regex heuristic), Markdown write, XMind     *)
(* conversion and the per-file batch loop of main().                       *)
(*                                                                         *)
(* Strings are sequences of one-character tokens.  ASCII characters stand  *)
(* for themselves; the CJK characters the regular expressions mention are  *)
(* written as tokens: "DI" (U+7B2C), "ZHANG" (U+7AE0), "JIE" (U+8282),     *)
(* "YI" (U+4E00), "SHI" (U+5341), "BAI" (U+767E, not in the numeral        *)
(* class) and "DUN" (U+3001, the ideographic comma).                       *)
(***************************************************************************)
EXTENDS Integers, Sequences, FiniteSets, TLC

VARIABLES
    \* ---- outline generator calls (generate_mindmap_md / generate_simple_mindmap)
    pdf_text,        \* argument: the extracted text
    pdf_name,        \* argument: the title
    api_key,         \* os.getenv("DASHSCOPE_API_KEY") at the time of the call
    gen_pc,          \* "idle" | "ready" | "returned" | "raised"
    gen_result,      \* returned string (None when nothing was returned)
    gen_clients,     \* number of OpenAI(...) constructions during the call
    gen_requests     \* number of chat.completions.create attempts during the call

VARIABLES
    \* ---- extract_docx_text calls
    document,        \* the opened Document: [paragraphs, tables]
    full_text,       \* the returned string
    docx_pc          \* "idle" | "ready" | "returned"

VARIABLES
    \* ---- extract_pdf_text calls
    pdf,             \* the PDF file: sequence of pages, each with the text either library gives
    max_pages,       \* argument: {} for None, {n} for the number n
    pdf_env,         \* what fitz and pdfplumber do when used (see PdfEnvs)
    pdf_pc,          \* "idle" | "ready" | "returned" | "raised"
    pdf_result,      \* returned string (None when nothing was returned)
    pdf_trace        \* the extraction methods invoked, in order, with the pages each read

VARIABLES
    \* ---- main()
    data_dir,        \* the files of data/: file name |-> [readable, doc]
    out_dir,         \* what the path output is: "absent" | "dir" | "file"
    out_files,       \* the files of output/: file name |-> content
    fs_before,       \* out_dir and out_files as they were before main() ran
    main_pc,         \* "start" | "extract" | "generate" | "write" | "convert" | "done" | "crashed"
    docx_files,      \* list(data_dir.glob("*.docx"))
    file_index,      \* position of docx_file in docx_files
    doc_text,        \* local of main
    mindmap_md,      \* local of main
    md_file,         \* local of main
    history          \* what each step of each loop iteration did, in order

outlineVars == <<pdf_text, pdf_name, api_key, gen_pc, gen_result, gen_clients, gen_requests>>
docxVars == <<document, full_text, docx_pc>>
pdfVars == <<pdf, max_pages, pdf_env, pdf_pc, pdf_result, pdf_trace>>
mainVars == <<data_dir, out_dir, out_files, fs_before, main_pc, docx_files, file_index,
              doc_text, mindmap_md, md_file, history>>
genCallVars == <<pdf_text, pdf_name, gen_pc, gen_result, gen_clients, gen_requests>>
vars == <<outlineVars, docxVars, pdfVars, mainVars>>

\* Python's None.  It is kept distinct from every string by being the only
\* sequence that holds the token "None", which is not a character.
None == <<"None">>

Min(a, b) == IF a < b THEN a ELSE b

\* n copies of the character c
Rep(c, n) == [i \in 1..n |-> c]

(***************************************************************************)
(* Python string primitives                                                *)
(***************************************************************************)
NL == "\n"
Whitespace == {" ", "\t", NL, "\r"}

\* str.strip(): drop leading and trailing whitespace
strip(s) ==
    LET keep == {i \in 1..Len(s) : s[i] \notin Whitespace}
    IN  IF keep = {} THEN <<>>
        ELSE LET a == CHOOSE i \in keep : \A j \in 1..(i - 1) : s[j] \in Whitespace
                 b == CHOOSE i \in keep : \A j \in (i + 1)..Len(s) : s[j] \in Whitespace
             IN  SubSeq(s, a, b)

\* str.split('\n') of s[lo..hi]; the range is halved so that long texts do
\* not need deep recursion.  The result always has at least one piece.
RECURSIVE SplitRange(_, _, _)
SplitRange(s, lo, hi) ==
    IF lo > hi THEN << <<>> >>
    ELSE IF lo = hi THEN (IF s[lo] = NL THEN << <<>>, <<>> >> ELSE << <<s[lo]>> >>)
    ELSE LET mid == (lo + hi) \div 2
             l == SplitRange(s, lo, mid)
             r == SplitRange(s, mid + 1, hi)
         IN  SubSeq(l, 1, Len(l) - 1) \o << l[Len(l)] \o r[1] >> \o SubSeq(r, 2, Len(r))

split(s) == SplitRange(s, 1, Len(s))

\* sep.join(parts[lo..hi]), halved like SplitRange
RECURSIVE JoinRange(_, _, _, _)
JoinRange(parts, sep, lo, hi) ==
    IF lo > hi THEN <<>>
    ELSE IF lo = hi THEN parts[lo]
    ELSE LET mid == (lo + hi) \div 2
         IN  JoinRange(parts, sep, lo, mid) \o sep \o JoinRange(parts, sep, mid + 1, hi)

join(sep, parts) == JoinRange(parts, sep, 1, Len(parts))

(***************************************************************************)
(* extract_docx_text                                                       *)
(* A Document is [paragraphs |-> sequence of paragraph texts,              *)
(*                tables |-> sequence of tables], a table is a sequence of *)
(* rows and a row the sequence of its cell texts.  Paragraph.text holds a  *)
(* "\n" for each line break inside the paragraph, and cell.text joins the  *)
(* paragraphs of the cell with "\n".                                       *)
(***************************************************************************)
\* the body shared by the paragraph loop and the cell loop:
\*   text = x.text.strip(); if text: text_content.append(text)
AppendStripped(text_content, raw) ==
    LET text == strip(raw)
    IN  IF text # <<>> THEN Append(text_content, text) ELSE text_content

\* for cell in row.cells
RECURSIVE ReadCells(_, _, _)
ReadCells(text_content, cells, i) ==
    IF i > Len(cells) THEN text_content
    ELSE ReadCells(AppendStripped(text_content, cells[i]), cells, i + 1)

\* for row in table.rows
RECURSIVE ReadRows(_, _, _)
ReadRows(text_content, rows, i) ==
    IF i > Len(rows) THEN text_content
    ELSE ReadRows(ReadCells(text_content, rows[i], 1), rows, i + 1)

\* for table in doc.tables
RECURSIVE ReadTables(_, _, _)
ReadTables(text_content, tables, i) ==
    IF i > Len(tables) THEN text_content
    ELSE ReadTables(ReadRows(text_content, tables[i], 1), tables, i + 1)

\* for i, para in enumerate(doc.paragraphs)
RECURSIVE ReadParagraphs(_, _, _)
ReadParagraphs(text_content, paragraphs, i) ==
    IF i > Len(paragraphs) THEN text_content
    ELSE ReadParagraphs(AppendStripped(text_content, paragraphs[i]), paragraphs, i + 1)

\* extract_docx_text with the table loop placed before the paragraph loop
extract_docx_text_tables_first(doc) ==
    join(<<NL>>, ReadParagraphs(ReadTables(<<>>, doc.tables, 1), doc.paragraphs, 1))

extract_docx_text(doc) ==
    join(<<NL>>, ReadTables(ReadParagraphs(<<>>, doc.paragraphs, 1), doc.tables, 1))

(***************************************************************************)
(* extract_pdf_text_pymupdf and extract_pdf_text                           *)
(* A PDF is a sequence of pages [fitz |-> page.get_text(),                 *)
(* plumber |-> page.extract_text()].  The module imports neither fitz nor  *)
(* pdfplumber, so either name is bound only if the embedding program has   *)
(* put it into the module namespace; "unbound" is the NameError raised     *)
(* otherwise, "open_error" a failure of the library to open the file.      *)
(***************************************************************************)
MinTextLen == 100      \* len(text.strip()) > 100

\* min(max_pages, total_pages) if max_pages else total_pages
PagesToProcess(mp, total_pages) ==
    IF mp # {} /\ mp # {0}
    THEN Min(CHOOSE n \in mp : TRUE, total_pages)
    ELSE total_pages

\* if text and text.strip()
FitzKeeps(text) == text # <<>> /\ strip(text) # <<>>
\* if text
PlumberKeeps(text) == text # None /\ text # <<>>

FitzTexts(file, n) == [i \in 1..n |-> file[i].fitz]
PlumberTexts(file, n) == [i \in 1..n |-> file[i].plumber]

PageBreak == <<NL, NL>>

extract_pdf_text_pymupdf(file, mp, fitz) ==
    IF fitz # "ok"
    THEN [status |-> "raised", value |-> None, opened |-> FALSE, pages |-> {}]
    ELSE LET pages_to_process == PagesToProcess(mp, Len(file))
             text_content == SelectSeq(FitzTexts(file, pages_to_process), FitzKeeps)
         IN  [status |-> "returned", value |-> join(PageBreak, text_content),
              opened |-> TRUE, pages |-> 1..pages_to_process]

\* the pdfplumber block of extract_pdf_text
PlumberBlock(file, mp, plumber) ==
    IF plumber # "ok"
    THEN [status |-> "raised", value |-> None, opened |-> FALSE, pages |-> {}]
    ELSE LET pages_to_process == PagesToProcess(mp, Len(file))
             text_content == SelectSeq(PlumberTexts(file, pages_to_process), PlumberKeeps)
         IN  [status |-> "returned", value |-> join(PageBreak, text_content),
              opened |-> TRUE, pages |-> 1..pages_to_process]

Invocation(method, r) == [method |-> method, opened |-> r.opened, pages |-> r.pages]

\* extract_pdf_text with the length test written `>=`
extract_pdf_text_ge(file, mp, env) ==
    LET primary == extract_pdf_text_pymupdf(file, mp, env.fitz)
        fallback == PlumberBlock(file, mp, env.plumber)
    IN  IF /\ primary.status = "returned"
           /\ primary.value # <<>>
           /\ Len(strip(primary.value)) >= MinTextLen
        THEN [status |-> "returned", value |-> primary.value,
              trace |-> <<Invocation("pymupdf", primary)>>]
        ELSE [status |-> fallback.status, value |-> fallback.value,
              trace |-> <<Invocation("pymupdf", primary), Invocation("pdfplumber", fallback)>>]

extract_pdf_text(file, mp, env) ==
    LET primary == extract_pdf_text_pymupdf(file, mp, env.fitz)
        fallback == PlumberBlock(file, mp, env.plumber)
    IN  IF /\ primary.status = "returned"
           /\ primary.value # <<>>
           /\ Len(strip(primary.value)) > MinTextLen
        THEN [status |-> "returned", value |-> primary.value,
              trace |-> <<Invocation("pymupdf", primary)>>]
        ELSE [status |-> fallback.status, value |-> fallback.value,
              trace |-> <<Invocation("pymupdf", primary), Invocation("pdfplumber", fallback)>>]

(***************************************************************************)
(* generate_simple_mindmap                                                 *)
(***************************************************************************)
ScanLimit == 500        \* lines[:500]
HeadingMaxLen == 50     \* len(line) < 50
BulletMaxLen == 100     \* len(line) < 100

Digits == {"0", "1", "2"}                      \* \d
NumeralClass == {"YI", "SHI"} \cup Digits      \* [<CJK numerals one..ten>\d]
SectionMarks == {"ZHANG", "JIE"}               \* [<chapter><section>]

\* re.match(r'^DI[numerals\d]+[ZHANG JIE]', line)
MatchOrdinal(line) ==
    /\ Len(line) >= 3
    /\ line[1] = "DI"
    /\ \E k \in 2..(Len(line) - 1) :
          /\ \A j \in 2..k : line[j] \in NumeralClass
          /\ line[k + 1] \in SectionMarks

\* re.match(r'^\d+[\.\DUN]', line)
MatchNumbered(line) ==
    /\ Len(line) >= 2
    /\ \E k \in 1..(Len(line) - 1) :
          /\ \A j \in 1..k : line[j] \in Digits
          /\ line[k + 1] \in {".", "DUN"}

IsSectionTitle(line) == MatchOrdinal(line) \/ MatchNumbered(line)

\* LoopBody with the heading length test written `<=`
LoopBody_le(st, raw) ==
    LET line == strip(raw)
    IN  IF line = <<>> THEN st
        ELSE IF IsSectionTitle(line)
             THEN IF Len(line) <= HeadingMaxLen
                  THEN [mindmap |-> Append(st.mindmap, <<"#", "#", " ">> \o line),
                        current_section |-> line]
                  ELSE st
        ELSE IF st.current_section # None /\ Len(line) < BulletMaxLen
             THEN [st EXCEPT !.mindmap = Append(@, <<"-", " ">> \o line)]
        ELSE st

\* One iteration of the for loop; st = [mindmap |-> list, current_section |-> line or None]
LoopBody(st, raw) ==
    LET line == strip(raw)
    IN  IF line = <<>> THEN st
        ELSE IF IsSectionTitle(line)
             THEN IF Len(line) < HeadingMaxLen
                  THEN [mindmap |-> Append(st.mindmap, <<"#", "#", " ">> \o line),
                        current_section |-> line]
                  ELSE st
        ELSE IF st.current_section # None /\ Len(line) < BulletMaxLen
             THEN [st EXCEPT !.mindmap = Append(@, <<"-", " ">> \o line)]
        ELSE st

\* The for loop over lines[lo..hi], in order: the range is halved and the left
\* half runs first.  TLC evaluates operator arguments lazily; the test on
\* `left` makes it compute the state after the left half before entering the
\* right half, which keeps the evaluation depth logarithmic.
RECURSIVE Loop(_, _, _, _)
Loop(lines, lo, hi, st) ==
    IF lo > hi THEN st
    ELSE IF lo = hi THEN LoopBody(st, lines[lo])
    ELSE LET mid == (lo + hi) \div 2
             left == Loop(lines, lo, mid, st)
         IN  IF left = left THEN Loop(lines, mid + 1, hi, left) ELSE st

\* The list `mindmap` just before the final join
simple_mindmap_list(text, name) ==
    LET lines == split(text)
        st0 == [mindmap |-> << <<"#", " ">> \o name, <<>> >>, current_section |-> None]
    IN  Loop(lines, 1, Min(ScanLimit, Len(lines)), st0).mindmap

generate_simple_mindmap(text, name) == join(<<NL>>, simple_mindmap_list(text, name))

(***************************************************************************)
(* generate_mindmap_md                                                     *)
(***************************************************************************)
\* The prompt (template, title and pdf_text[:100000]) only travels inside the
\* request; nothing the function returns or changes depends on it.
\* What the remote service does when asked (environment):
\*   client_error  - OpenAI(...) raises
\*   request_error - chat.completions.create raises
\*   no_choices    - completion.choices is empty (IndexError on choices[0])
\*   content       - choices[0].message.content is `content` (may be None)
RemoteResponses == { <<"#", " ", "r">>, <<>> }
RemoteOutcomes ==
    { [kind |-> k, content |-> None] : k \in {"client_error", "request_error", "no_choices"} }
    \cup { [kind |-> "content", content |-> c] : c \in RemoteResponses \cup {None} }

\* `not api_key`
NoCredential(key) == key = None \/ key = <<>>

\* generate_mindmap_md with the credential test written `api_key is None`
generate_mindmap_md_is_none(text, name, key, remote) ==
    IF key = None
    THEN [status |-> "returned", value |-> generate_simple_mindmap(text, name),
          clients |-> 0, requests |-> 0]
    ELSE IF remote.kind = "client_error"
    THEN [status |-> "raised", value |-> None, clients |-> 1, requests |-> 0]
    ELSE IF remote.kind \in {"request_error", "no_choices"}
    THEN [status |-> "raised", value |-> None, clients |-> 1, requests |-> 1]
    ELSE IF remote.content = None
    THEN [status |-> "raised", value |-> None, clients |-> 1, requests |-> 1]
    ELSE [status |-> "returned", value |-> remote.content, clients |-> 1, requests |-> 1]

\* Result of one call: how it ended, the value returned, and how many client
\* constructions and chat-completion requests were attempted.
generate_mindmap_md(text, name, key, remote) ==
    IF NoCredential(key)
    THEN [status |-> "returned", value |-> generate_simple_mindmap(text, name),
          clients |-> 0, requests |-> 0]
    ELSE IF remote.kind = "client_error"
    THEN [status |-> "raised", value |-> None, clients |-> 1, requests |-> 0]
    ELSE IF remote.kind \in {"request_error", "no_choices"}
    THEN [status |-> "raised", value |-> None, clients |-> 1, requests |-> 1]
    ELSE IF remote.content = None      \* len(result) raises TypeError
    THEN [status |-> "raised", value |-> None, clients |-> 1, requests |-> 1]
    ELSE [status |-> "returned", value |-> remote.content, clients |-> 1, requests |-> 1]

(***************************************************************************)
(* Paths.  A file name is a string; all outputs live in the one directory  *)
(* output/, so a file of it is identified by its name.                     *)
(***************************************************************************)
EndsWith(s, suffix) ==
    /\ Len(s) >= Len(suffix)
    /\ SubSeq(s, Len(s) - Len(suffix) + 1, Len(s)) = suffix

\* Path.stem with the name cut at its first dot
Stem_first_dot(name) ==
    LET dots == {i \in 2..Len(name) : name[i] = "."}
    IN  IF dots = {} THEN name
        ELSE SubSeq(name, 1, (CHOOSE i \in dots : \A j \in dots : i <= j) - 1)

\* Path.stem: the name without its last suffix (a leading dot starts no suffix)
Stem(name) ==
    LET dots == {i \in 2..Len(name) : name[i] = "."}
    IN  IF dots = {} THEN name
        ELSE SubSeq(name, 1, (CHOOSE i \in dots : \A j \in dots : j <= i) - 1)

DocxSuffix == <<".", "d", "o", "c", "x">>
MdSuffix == <<".", "m", "d">>
XmindSuffix == <<".", "x", "m", "i", "n", "d">>

\* the names data_dir.glob("*.docx") yields, as a set
GlobDocx(dir) == {name \in DOMAIN dir : EndsWith(name, DocxSuffix)}

\* the orders in which a directory listing can yield the names of S
Orderings(S) ==
    {order \in [1..Cardinality(S) -> S] : \A i, j \in 1..Cardinality(S) : i # j => order[i] # order[j]}

NoFiles == [name \in {} |-> <<>>]
XmindContent == <<"XMIND">>

(***************************************************************************)
(* convert_md_to_xmind                                                     *)
(* env is what the converter does: "import_error" (import md2xmind         *)
(* raises), "convert_error" (start_trans_file raises) or "ok".             *)
(***************************************************************************)
ConverterStates == {"import_error", "convert_error", "ok"}

\* convert_md_to_xmind with a failure handler that deletes the Markdown file
convert_md_to_xmind_unlink(md, dir, files, env) ==
    LET xmind_file == Stem(md) \o XmindSuffix
        without == [name \in (DOMAIN files) \ {md} |-> files[name]]
    IN  IF env = "import_error"
        THEN [status |-> "raised", value |-> None, dir |-> dir, files |-> files]
        ELSE IF dir = "file"
        THEN [status |-> "raised", value |-> None, dir |-> dir, files |-> files]
        ELSE IF env = "ok"
        THEN [status |-> "returned", value |-> xmind_file, dir |-> "dir",
              files |-> (xmind_file :> XmindContent) @@ files]
        ELSE [status |-> "returned", value |-> None, dir |-> "dir", files |-> without]

convert_md_to_xmind(md, dir, files, env) ==
    LET xmind_file == Stem(md) \o XmindSuffix
    IN  IF env = "import_error"          \* import md2xmind, outside the try
        THEN [status |-> "raised", value |-> None, dir |-> dir, files |-> files]
        ELSE IF dir = "file"             \* output_path.mkdir(exist_ok=True), outside the try
        THEN [status |-> "raised", value |-> None, dir |-> dir, files |-> files]
        ELSE IF env = "ok"
        THEN [status |-> "returned", value |-> xmind_file, dir |-> "dir",
              files |-> (xmind_file :> XmindContent) @@ files]
        ELSE [status |-> "returned", value |-> None, dir |-> "dir", files |-> files]

(***************************************************************************)
(* Inputs of the outline generator specifications                          *)
(***************************************************************************)
MaxLines == 2       \* short texts have at most this many lines
MaxTail == 1        \* long texts end with at most this many lines after the padding

\* all sequences over S of length at most n
RECURSIVE SeqsUpTo(_, _)
SeqsUpTo(S, n) ==
    IF n = 0 THEN { <<>> }
    ELSE LET shorter == SeqsUpTo(S, n - 1)
         IN  shorter \cup { Append(q, x) : q \in {r \in shorter : Len(r) = n - 1}, x \in S }

HeurLines ==
    { <<"DI", "YI", "ZHANG", " ", "a">>,
      <<"1", ".", "a">>,
      <<" ", "2", "DUN", "b", "\t">>,
      <<"1", ".">> \o Rep("a", HeadingMaxLen - 3),
      <<"1", ".">> \o Rep("a", HeadingMaxLen - 2),
      <<"DI", "SHI", "1", "JIE">> \o Rep("a", BulletMaxLen - 5),
      <<"b">>,
      Rep("b", BulletMaxLen - 1),
      Rep("b", BulletMaxLen),
      <<"DI", "BAI", "ZHANG">>,
      <<" ", " ">>,
      <<>> }

ShortTexts == { join(<<NL>>, ls) : ls \in SeqsUpTo(HeurLines, MaxLines) }

GenLines ==
    { <<"DI", "YI", "ZHANG", " ", "a">>,
      <<"1", ".">> \o Rep("a", HeadingMaxLen - 2),
      <<"b">>,
      <<" ">>,
      <<>> }
GenTexts == { join(<<NL>>, ls) : ls \in SeqsUpTo(GenLines, MaxLines) }

PadCounts == { ScanLimit - 2, ScanLimit - 1, ScanLimit }
TailLines == { <<"2", ".", "z">>, <<"y">> }
LongTexts ==
    { join(<<NL>>, <<first>> \o Rep(filler, p) \o tail) :
        first \in { <<"1", ".", "a">>, <<"c">> },
        filler \in { <<>>, <<"x">> },
        p \in PadCounts,
        tail \in SeqsUpTo(TailLines, MaxTail) }

HeurTexts == ShortTexts \cup LongTexts
Titles == { <<"t">>, <<"m", "y">> }
ApiKeys == { None, <<>>, <<"s", "k">> }

GenCallIdle ==
    /\ pdf_text = <<>> /\ pdf_name = <<>>
    /\ gen_pc = "idle" /\ gen_result = None /\ gen_clients = 0 /\ gen_requests = 0

OutlineIdle == GenCallIdle /\ api_key = None

MainIdle ==
    /\ data_dir = NoFiles /\ out_dir = "absent" /\ out_files = NoFiles
    /\ fs_before = [out_dir |-> "absent", out_files |-> NoFiles]
    /\ main_pc = "idle" /\ docx_files = <<>> /\ file_index = 1
    /\ doc_text = None /\ mindmap_md = None /\ md_file = None /\ history = <<>>

DocxIdle == document = None /\ full_text = None /\ docx_pc = "idle"

PdfIdle ==
    /\ pdf = <<>> /\ max_pages = {} /\ pdf_env = None
    /\ pdf_pc = "idle" /\ pdf_result = None /\ pdf_trace = <<>>

\* ---- direct calls of generate_simple_mindmap
InitHeur ==
    /\ DocxIdle
    /\ PdfIdle
    /\ MainIdle
    /\ pdf_text \in HeurTexts
    /\ pdf_name \in Titles
    /\ api_key = None
    /\ gen_pc = "ready" /\ gen_result = None /\ gen_clients = 0 /\ gen_requests = 0

CallSimple ==
    /\ gen_pc = "ready"
    /\ gen_result' = generate_simple_mindmap(pdf_text, pdf_name)
    /\ gen_pc' = "returned"
    /\ UNCHANGED <<pdf_text, pdf_name, api_key, gen_clients, gen_requests>>
    /\ UNCHANGED <<docxVars, pdfVars, mainVars>>

NextHeur == CallSimple
SpecHeur == InitHeur /\ [][NextHeur]_vars

\* ---- calls of generate_mindmap_md
InitGen ==
    /\ DocxIdle
    /\ PdfIdle
    /\ MainIdle
    /\ pdf_text \in GenTexts
    /\ pdf_name \in Titles
    /\ api_key \in ApiKeys
    /\ gen_pc = "ready" /\ gen_result = None /\ gen_clients = 0 /\ gen_requests = 0

CallGenerate ==
    /\ gen_pc = "ready"
    /\ \E remote \in RemoteOutcomes :
          LET r == generate_mindmap_md(pdf_text, pdf_name, api_key, remote)
          IN  /\ gen_pc' = r.status
              /\ gen_result' = r.value
              /\ gen_clients' = r.clients
              /\ gen_requests' = r.requests
    /\ UNCHANGED <<pdf_text, pdf_name, api_key>>
    /\ UNCHANGED <<docxVars, pdfVars, mainVars>>

NextGen == CallGenerate
SpecGen == InitGen /\ [][NextGen]_vars

(***************************************************************************)
(* Calls of extract_docx_text (SpecDocx)                                   *)
(***************************************************************************)
MaxParas == 2       \* paragraphs per document
MaxCells == 2       \* table cells per document

ParaTexts == { <<"a">>, <<" ", "b", "\t">>, <<>>, <<" ", NL>>, <<"c", NL, "d">> }
CellTexts == { <<"x">>, <<" ">>, <<NL, "y", NL, NL, "z">> }

\* the ways the model lays a sequence of cells out as tables
Layouts == {"one_row", "row_per_cell", "table_per_cell"}
TablesOf(cells, layout) ==
    IF cells = <<>> THEN <<>>
    ELSE IF layout = "one_row" THEN << <<cells>> >>
    ELSE IF layout = "row_per_cell" THEN << [i \in 1..Len(cells) |-> <<cells[i]>>] >>
    ELSE [i \in 1..Len(cells) |-> << <<cells[i]>> >>]

Documents ==
    { [paragraphs |-> ps, tables |-> TablesOf(cs, layout)] :
        ps \in SeqsUpTo(ParaTexts, MaxParas),
        cs \in SeqsUpTo(CellTexts, MaxCells),
        layout \in Layouts }

InitDocx ==
    /\ OutlineIdle
    /\ PdfIdle
    /\ MainIdle
    /\ document \in Documents
    /\ full_text = None
    /\ docx_pc = "ready"

CallExtractDocx ==
    /\ docx_pc = "ready"
    /\ full_text' = extract_docx_text(document)
    /\ docx_pc' = "returned"
    /\ UNCHANGED document
    /\ UNCHANGED <<outlineVars, pdfVars, mainVars>>

NextDocx == CallExtractDocx
SpecDocx == InitDocx /\ [][NextDocx]_vars

\* all cell texts of the tables, in table/row/cell order
RECURSIVE Flatten(_)
Flatten(seqs) == IF seqs = <<>> THEN <<>> ELSE Head(seqs) \o Flatten(Tail(seqs))
AllCells(doc) == Flatten(Flatten(doc.tables))

NonBlank(t) == strip(t) # <<>>
StripAll(ts) == [i \in 1..Len(ts) |-> strip(ts[i])]

\* the N stripped non-empty paragraph texts followed by the M stripped
\* non-empty cell texts
Segments(doc) ==
    StripAll(SelectSeq(doc.paragraphs, NonBlank)) \o StripAll(SelectSeq(AllCells(doc), NonBlank))

NonEmptyLine(l) == l # <<>>
HasLineBreak(t) == \E i \in 1..Len(t) : t[i] = NL

\* C10 as stated: the non-empty lines of the returned text are exactly the
\* N+M stripped paragraph and cell texts, paragraphs first, in order.
DocxLinesAreSegments ==
    docx_pc = "returned" =>
        SelectSeq(split(full_text), NonEmptyLine) = Segments(document)

\* C10 amended: the returned text is the N+M stripped texts joined by single
\* newlines, paragraphs first, in order; its non-empty lines are exactly those
\* N+M texts whenever none of them has a line break inside.
DocxTextIsJoinedSegments ==
    docx_pc = "returned" =>
        LET segs == Segments(document)
        IN  /\ full_text = join(<<NL>>, segs)
            /\ (\A i \in 1..Len(segs) : ~HasLineBreak(segs[i])) =>
                  /\ SelectSeq(split(full_text), NonEmptyLine) = segs
                  /\ segs # <<>> => split(full_text) = segs

\* a document with a blank paragraph, a kept paragraph and a kept cell
DocxWitness ==
    /\ docx_pc = "returned"
    /\ Len(document.paragraphs) = 2
    /\ Len(Segments(document)) = 2
    /\ Len(AllCells(document)) >= 1
    /\ full_text = <<"b", NL, "x">>

(***************************************************************************)
(* Calls of extract_pdf_text (SpecPdf)                                     *)
(***************************************************************************)
MaxPdfPages == 2     \* pages per PDF

PageKinds ==
    { [fitz |-> Rep("a", MinTextLen + 1), plumber |-> <<"p">>],
      [fitz |-> <<" ">> \o Rep("a", MinTextLen) \o <<NL>>, plumber |-> <<"q">>],
      [fitz |-> Rep("b", MinTextLen \div 2), plumber |-> <<" ">>],
      [fitz |-> <<>>, plumber |-> None],
      [fitz |-> <<" ">>, plumber |-> <<>>] }

Pdfs == SeqsUpTo(PageKinds, MaxPdfPages)
MaxPagesArgs == { {} } \cup { {n} : n \in 0..(MaxPdfPages + 1) }
LibraryStates == {"unbound", "open_error", "ok"}
PdfEnvs == [fitz : LibraryStates, plumber : LibraryStates]

InitPdf ==
    /\ OutlineIdle
    /\ DocxIdle
    /\ MainIdle
    /\ pdf \in Pdfs
    /\ max_pages \in MaxPagesArgs
    /\ pdf_env \in PdfEnvs
    /\ pdf_pc = "ready" /\ pdf_result = None /\ pdf_trace = <<>>

CallExtractPdf ==
    /\ pdf_pc = "ready"
    /\ LET r == extract_pdf_text(pdf, max_pages, pdf_env)
       IN  /\ pdf_pc' = r.status
           /\ pdf_result' = r.value
           /\ pdf_trace' = r.trace
    /\ UNCHANGED <<pdf, max_pages, pdf_env>>
    /\ UNCHANGED <<outlineVars, docxVars, mainVars>>

NextPdf == CallExtractPdf
SpecPdf == InitPdf /\ [][NextPdf]_vars

\* the page range both methods are to cover
PageRange == 1..(IF max_pages = {} \/ max_pages = {0}
                 THEN Len(pdf)
                 ELSE Min(CHOOSE n \in max_pages : TRUE, Len(pdf)))

\* text of the pages of a range that the primary method joins
PrimaryText ==
    LET kept == SelectSeq([i \in PageRange |-> pdf[i].fitz], NonBlank)
    IN  join(PageBreak, kept)

FallbackText ==
    LET Kept(t) == t # None /\ Len(t) > 0
    IN  join(PageBreak, SelectSeq([i \in PageRange |-> pdf[i].plumber], Kept))

PrimarySuffices == pdf_env.fitz = "ok" /\ Len(strip(PrimaryText)) > MinTextLen

\* C9: the primary method is invoked first and once; its text is the result,
\* without any fallback, exactly when it did not raise and its stripped text
\* is longer than 100 characters; otherwise the fallback is invoked exactly
\* once, over the same page range, and the call returns the fallback's page
\* texts joined by blank lines or raises the fallback's error.
PdfFallbackPolicy ==
    pdf_pc \in {"returned", "raised"} =>
        /\ Len(pdf_trace) >= 1
        /\ pdf_trace[1].method = "pymupdf"
        /\ pdf_trace[1].opened => pdf_trace[1].pages = PageRange
        /\ IF PrimarySuffices
           THEN /\ Len(pdf_trace) = 1
                /\ pdf_pc = "returned"
                /\ pdf_result = PrimaryText
           ELSE /\ Len(pdf_trace) = 2
                /\ pdf_trace[2].method = "pdfplumber"
                /\ IF pdf_env.plumber = "ok"
                   THEN /\ pdf_trace[2].opened
                        /\ pdf_trace[2].pages = PageRange
                        /\ pdf_pc = "returned"
                        /\ pdf_result = FallbackText
                   ELSE /\ pdf_pc = "raised"
                        /\ pdf_result = None

\* the primary method returned exactly 100 characters after stripping, from a
\* page range cut by max_pages, and the fallback supplied the result
PdfFallbackWitness ==
    /\ pdf_pc = "returned"
    /\ pdf_env.fitz = "ok"
    /\ Len(strip(PrimaryText)) = MinTextLen
    /\ max_pages = {1}
    /\ Len(pdf) = 2
    /\ Len(pdf_trace) = 2
    /\ pdf_result = <<"q">>

(***************************************************************************)
(* Properties of generate_simple_mindmap (SpecHeur)                        *)
(***************************************************************************)
\* the stripped lines the scan looks at
Considered(text) ==
    LET lines == split(text)
    IN  [i \in 1..Min(ScanLimit, Len(lines)) |-> strip(lines[i])]

\* the text cut after its first ScanLimit lines
FirstLines(text) ==
    LET lines == split(text)
    IN  join(<<NL>>, SubSeq(lines, 1, Min(ScanLimit, Len(lines))))

BecomesHeading(line) == line # <<>> /\ IsSectionTitle(line) /\ Len(line) < HeadingMaxLen

IsHeadingOut(o) == Len(o) >= 3 /\ SubSeq(o, 1, 3) = <<"#", "#", " ">>
IsBulletOut(o) == Len(o) >= 2 /\ SubSeq(o, 1, 2) = <<"-", " ">>

\* output lines after the title line and the blank line
OutBody(result) == LET out == split(result) IN SubSeq(out, 3, Len(out))

\* C8: the output starts with "# <title>"; the "## " lines of the output are
\* exactly the stripped lines among the first 500 that match the
\* chapter/section pattern and are shorter than 50 characters, in order (so a
\* matching line of 50 or more characters is never a heading); and the result
\* is the result for the text cut after its first 500 lines.
HeadingRule ==
    gen_pc = "returned" =>
        LET hs == SelectSeq(Considered(pdf_text), BecomesHeading)
        IN  /\ split(gen_result)[1] = <<"#", " ">> \o pdf_name
            /\ SelectSeq(OutBody(gen_result), IsHeadingOut)
                 = [i \in 1..Len(hs) |-> <<"#", "#", " ">> \o hs[i]]
            /\ gen_result = generate_simple_mindmap(FirstLines(pdf_text), pdf_name)

\* a text of more than 500 lines with a heading inside the scanned part and a
\* would-be heading right after it, plus a call that has returned
HeadingRuleWitness ==
    /\ gen_pc = "returned"
    /\ Len(split(pdf_text)) > ScanLimit
    /\ BecomesHeading(strip(split(pdf_text)[ScanLimit + 1]))
    /\ Len(SelectSeq(OutBody(gen_result), IsHeadingOut)) = 1

\* the bullets the bullet rule promises: every considered line that is
\* non-empty, shorter than 100 characters, not itself emitted as a heading, and
\* preceded by a line that became a heading
ClaimedBullets(text) ==
    LET c == Considered(text)
        heads == {i \in 1..Len(c) : BecomesHeading(c[i])}
        Promised(i) ==
            /\ c[i] # <<>>
            /\ Len(c[i]) < BulletMaxLen
            /\ i \notin heads
            /\ \E h \in heads : h < i
        idx == SelectSeq([i \in 1..Len(c) |-> i], Promised)
    IN  [k \in 1..Len(idx) |-> <<"-", " ">> \o c[idx[k]]]

\* C7: every non-empty line of fewer than 100 characters that comes after a
\* heading became active is emitted as a "- <line>" bullet, in input order, and
\* there are no other bullets.
BulletRule ==
    gen_pc = "returned" =>
        SelectSeq(OutBody(gen_result), IsBulletOut) = ClaimedBullets(pdf_text)

MaxFiles == 2       \* *.docx files in data/

NamePool == << <<"a">> \o DocxSuffix,
               <<"b", ".", "2">> \o DocxSuffix,
               <<"c">> \o DocxSuffix,
               <<"d", ".", "e">> \o DocxSuffix >>
OtherName == <<"n", ".", "t", "x", "t">>

BlankDoc == [paragraphs |-> << <<" ">> >>, tables |-> <<>>]
ChapterDoc == [paragraphs |-> << <<"DI", "YI", "ZHANG">>, <<"b">> >>,
               tables |-> << << << <<"x">> >> >> >>]
DataEntries ==
    { [readable |-> FALSE, doc |-> BlankDoc],       \* Document(path) raises
      [readable |-> TRUE, doc |-> BlankDoc],
      [readable |-> TRUE, doc |-> ChapterDoc] }

DataDirs ==
    UNION { [S \cup {OtherName} -> DataEntries] :
              S \in SUBSET {NamePool[i] : i \in 1..MaxFiles} }

\* an output directory left by an earlier run
StaleFiles == (Stem(NamePool[1]) \o MdSuffix) :> <<"o", "l", "d">>

InitMain ==
    /\ GenCallIdle
    /\ DocxIdle
    /\ PdfIdle
    /\ api_key \in {None, <<>>}
    /\ data_dir \in DataDirs
    /\ out_dir \in {"absent", "dir", "file"}
    /\ out_files \in (IF out_dir = "dir" THEN {NoFiles, StaleFiles} ELSE {NoFiles})
    /\ fs_before = [out_dir |-> out_dir, out_files |-> out_files]
    /\ main_pc = "start"
    /\ docx_files = <<>>
    /\ file_index = 1
    /\ doc_text = None /\ mindmap_md = None /\ md_file = None
    /\ history = <<>>

docx_file == docx_files[file_index]

Event(step, outcome, target, content) ==
    [pos |-> file_index, file |-> docx_file, step |-> step, outcome |-> outcome,
     target |-> target, content |-> content]

\* the end of a loop iteration, by `continue` or by falling off the body:
\* the next file, or the final report after the last one
Continue ==
    /\ file_index' = file_index + 1
    /\ main_pc' = IF file_index = Len(docx_files) THEN "done" ELSE "extract"

\* load_dotenv(); output_dir.mkdir(exist_ok=True); glob; the empty-list return
Start ==
    /\ main_pc = "start"
    /\ \E dotenv \in {None, <<"s", "k">>} :
          api_key' = IF api_key = None THEN dotenv ELSE api_key
    /\ IF out_dir = "file"
       THEN \* mkdir raises FileExistsError, which nothing catches
            /\ main_pc' = "crashed"
            /\ UNCHANGED <<out_dir, docx_files>>
       ELSE /\ out_dir' = "dir"
            /\ \E order \in Orderings(GlobDocx(data_dir)) : docx_files' = order
            /\ main_pc' = IF docx_files' = <<>> THEN "done" ELSE "extract"
    /\ UNCHANGED <<data_dir, out_files, fs_before, file_index, doc_text, mindmap_md,
                   md_file, history>>
    /\ UNCHANGED <<genCallVars, docxVars, pdfVars>>

\* Extract with `return` in place of `continue` on empty text
Extract_return ==
    /\ main_pc = "extract"
    /\ LET entry == data_dir[docx_file]
           text == extract_docx_text(entry.doc)
       IN  IF ~entry.readable
           THEN /\ history' = Append(history, Event("extract", "raised", None, None))
                /\ Continue
                /\ UNCHANGED doc_text
           ELSE /\ doc_text' = text
                /\ IF text = <<>> \/ Len(strip(text)) = 0
                   THEN /\ history' = Append(history, Event("extract", "empty", None, None))
                        /\ main_pc' = "done"
                        /\ UNCHANGED file_index
                   ELSE /\ history' = Append(history, Event("extract", "ok", None, None))
                        /\ main_pc' = "generate"
                        /\ UNCHANGED file_index
    /\ UNCHANGED <<data_dir, out_dir, out_files, fs_before, docx_files, mindmap_md, md_file>>
    /\ UNCHANGED <<outlineVars, docxVars, pdfVars>>

\* 1. doc_text = extract_docx_text(docx_file), and the empty-text skip
Extract ==
    /\ main_pc = "extract"
    /\ LET entry == data_dir[docx_file]
           text == extract_docx_text(entry.doc)
       IN  IF ~entry.readable
           THEN /\ history' = Append(history, Event("extract", "raised", None, None))
                /\ Continue
                /\ UNCHANGED doc_text
           ELSE /\ doc_text' = text
                /\ IF text = <<>> \/ Len(strip(text)) = 0
                   THEN /\ history' = Append(history, Event("extract", "empty", None, None))
                        /\ Continue
                   ELSE /\ history' = Append(history, Event("extract", "ok", None, None))
                        /\ main_pc' = "generate"
                        /\ UNCHANGED file_index
    /\ UNCHANGED <<data_dir, out_dir, out_files, fs_before, docx_files, mindmap_md, md_file>>
    /\ UNCHANGED <<outlineVars, docxVars, pdfVars>>

\* 2. mindmap_md = generate_mindmap_md(doc_text, docx_file.stem)
Generate ==
    /\ main_pc = "generate"
    /\ \E remote \in RemoteOutcomes :
          LET r == generate_mindmap_md(doc_text, Stem(docx_file), api_key, remote)
          IN  IF r.status = "raised"
              THEN /\ history' = Append(history, Event("generate", "raised", None, None))
                   /\ Continue
                   /\ UNCHANGED mindmap_md
              ELSE /\ history' = Append(history, Event("generate", "ok", None, r.value))
                   /\ mindmap_md' = r.value
                   /\ main_pc' = "write"
                   /\ UNCHANGED file_index
    /\ UNCHANGED <<data_dir, out_dir, out_files, fs_before, docx_files, doc_text, md_file>>
    /\ UNCHANGED <<outlineVars, docxVars, pdfVars>>

\* what a write that fails part-way can leave in the file
PartialContents(content) == { <<>>, SubSeq(content, 1, Len(content) \div 2) }

\* 3. open(md_file, 'w') and f.write(mindmap_md)
WriteMarkdown ==
    /\ main_pc = "write"
    /\ LET target == Stem(docx_file) \o MdSuffix
       IN  /\ md_file' = target
           /\ \/ \* open raises: nothing is created
                 /\ history' = Append(history, Event("write", "open_error", target, None))
                 /\ UNCHANGED out_files
                 /\ Continue
              \/ \* the file is created or truncated, then write or close raises
                 /\ Len(mindmap_md) > 0
                 /\ \E left \in PartialContents(mindmap_md) :
                       /\ out_files' = (target :> left) @@ out_files
                       /\ history' = Append(history, Event("write", "write_error", target, left))
                 /\ Continue
              \/ /\ out_files' = (target :> mindmap_md) @@ out_files
                 /\ history' = Append(history, Event("write", "ok", target, mindmap_md))
                 /\ main_pc' = "convert"
                 /\ UNCHANGED file_index
    /\ UNCHANGED <<data_dir, out_dir, fs_before, docx_files, doc_text, mindmap_md>>
    /\ UNCHANGED <<outlineVars, docxVars, pdfVars>>

\* 4. xmind_file = convert_md_to_xmind(md_file, output_dir); an exception that
\* leaves the call is caught by the except clause of the loop body
Convert ==
    /\ main_pc = "convert"
    /\ \E env \in ConverterStates :
          LET r == convert_md_to_xmind(md_file, out_dir, out_files, env)
          IN  /\ out_files' = r.files
              /\ out_dir' = r.dir
              /\ history' = Append(history,
                     Event("convert",
                           IF r.status = "raised" THEN "raised"
                           ELSE IF r.value = None THEN "none" ELSE "ok",
                           r.value, None))
    /\ Continue
    /\ UNCHANGED <<data_dir, fs_before, docx_files, doc_text, mindmap_md, md_file>>
    /\ UNCHANGED <<outlineVars, docxVars, pdfVars>>

NextMain == Start \/ Extract \/ Generate \/ WriteMarkdown \/ Convert
SpecMain == InitMain /\ [][NextMain]_vars

(***************************************************************************)
(* Properties of main() (SpecMain)                                         *)
(***************************************************************************)
Positions == 1..Len(docx_files)

\* the loop iteration for position k has ended
Finished(k) == k < file_index \/ main_pc = "done"

StepEvents(k, step) == LET Is(e) == e.pos = k /\ e.step = step IN SelectSeq(history, Is)

\* the files attempted, in the order of the attempts
Attempts ==
    LET IsExtract(e) == e.step = "extract"
        ex == SelectSeq(history, IsExtract)
    IN  [i \in 1..Len(ex) |-> ex[i].file]

\* the output names of an input name, computed from the name itself
ExpectedMd(name) == SubSeq(name, 1, Len(name) - Len(DocxSuffix)) \o MdSuffix
ExpectedXmind(name) == SubSeq(name, 1, Len(name) - Len(DocxSuffix)) \o XmindSuffix

\* what C1 says of every state: no exception of a loop iteration leaves
\* main(); the files attempted so far are the first files of the list, once
\* each and in list order; and after the final report all were attempted
AttemptedInOrder ==
    /\ main_pc = "crashed" => history = <<>>
    /\ Len(Attempts) <= Len(docx_files)
    /\ Attempts = SubSeq(docx_files, 1, Len(Attempts))
    /\ main_pc \in {"extract", "generate", "write", "convert"} =>
          /\ file_index \in Positions
          /\ Len(Attempts) \in {file_index - 1, file_index}
    /\ (main_pc = "done" /\ docx_files # <<>>) => Attempts = docx_files

StepRank(pc) ==
    CASE pc = "extract" -> 1 [] pc = "generate" -> 2 [] pc = "write" -> 3
      [] pc = "convert" -> 4 [] OTHER -> 0

\* a step of the loop, failed or not, stays in the loop body of the same file
\* at a later step, or moves to the next file, or to the final report after
\* the last file; it never leaves main() by an exception
LoopAdvances ==
    /\ main_pc' # "crashed"
    /\ \/ file_index' = file_index /\ StepRank(main_pc') > StepRank(main_pc)
       \/ file_index' = file_index + 1 /\ file_index < Len(docx_files) /\ main_pc' = "extract"
       \/ file_index' = file_index + 1 /\ file_index = Len(docx_files) /\ main_pc' = "done"

\* C1: whatever fails while a file is processed, the files are attempted once
\* each in list order, a failure never keeps a later file from being
\* attempted, and main() gets to its final report.
PerFileIsolation ==
    /\ []AttemptedInOrder
    /\ [][main_pc # "start" => LoopAdvances]_vars

\* two files, each step of the first failed in some run: here the conversion
\* of the first file raised, the second file was processed after it
PerFileIsolationWitness ==
    /\ main_pc = "done"
    /\ Len(docx_files) = 2
    /\ \E i \in 1..Len(history) :
          /\ history[i].pos = 1 /\ history[i].step = "convert" /\ history[i].outcome = "raised"
    /\ \E i \in 1..Len(history) :
          /\ history[i].pos = 2 /\ history[i].step = "convert" /\ history[i].outcome = "ok"

WroteMarkdown(k) ==
    \E i \in 1..Len(history) :
        history[i].pos = k /\ history[i].step = "write" /\ history[i].outcome = "ok"

WrittenContent(k) == StepEvents(k, "write")[1].content

ConvertOutcomes(k) == LET c == StepEvents(k, "convert") IN {c[i].outcome : i \in 1..Len(c)}

MdOnDiskAsWritten(k) ==
    LET md == ExpectedMd(docx_files[k])
    IN  md \in DOMAIN out_files /\ out_files[md] = WrittenContent(k)

\* output/<stem>.md is as it was before the run
MdUntouched(k) ==
    LET md == ExpectedMd(docx_files[k])
    IN  IF md \in DOMAIN fs_before.out_files
        THEN md \in DOMAIN out_files /\ out_files[md] = fs_before.out_files[md]
        ELSE md \notin DOMAIN out_files

Success(k) ==
    /\ WroteMarkdown(k)
    /\ ConvertOutcomes(k) = {"ok"}
    /\ MdOnDiskAsWritten(k)
    /\ ExpectedXmind(docx_files[k]) \in DOMAIN out_files

PartialSuccess(k) ==
    /\ WroteMarkdown(k)
    /\ ConvertOutcomes(k) \in { {"none"}, {"raised"} }
    /\ StepEvents(k, "convert")[1].target = None
    /\ MdOnDiskAsWritten(k)
    /\ ExpectedXmind(docx_files[k]) \notin DOMAIN out_files

\* skipped as C2 has it: no Markdown file was written for the input
SkippedNothingWritten(k) ==
    /\ ~WroteMarkdown(k)
    /\ ConvertOutcomes(k) = {}
    /\ MdUntouched(k)

\* skipped as the code has it: the Markdown write did not complete; a write
\* that failed part-way has left an incomplete file
SkippedWriteIncomplete(k) ==
    /\ ~WroteMarkdown(k)
    /\ ConvertOutcomes(k) = {}
    /\ LET w == StepEvents(k, "write")
       IN  IF w # <<>> /\ w[1].outcome = "write_error"
           THEN /\ ExpectedMd(docx_files[k]) \in DOMAIN out_files
                /\ out_files[ExpectedMd(docx_files[k])] = w[1].content
                /\ w[1].content # StepEvents(k, "generate")[1].content
           ELSE MdUntouched(k)

\* every conversion attempt comes after the completed Markdown write of its file
ConvertOnlyAfterWrite ==
    \A j \in 1..Len(history) :
        history[j].step = "convert" =>
            \E i \in 1..(j - 1) :
                /\ history[i].pos = history[j].pos
                /\ history[i].step = "write"
                /\ history[i].outcome = "ok"

\* C2 as stated: a finished file is a success, a partial success, or skipped
\* with no Markdown file written for it.
TerminalStatesAsStated ==
    /\ ConvertOnlyAfterWrite
    /\ \A k \in Positions :
          Finished(k) => (Success(k) \/ PartialSuccess(k) \/ SkippedNothingWritten(k))

\* C2 amended: a finished file is a success, a partial success, or skipped
\* with the Markdown write not completed, in which case an error raised during
\* the write may have left an incomplete Markdown file; conversion is only
\* attempted after the completed write, and a failed conversion leaves the
\* Markdown file as written.
TerminalStates ==
    /\ ConvertOnlyAfterWrite
    /\ \A k \in Positions :
          Finished(k) => (Success(k) \/ PartialSuccess(k) \/ SkippedWriteIncomplete(k))

\* a run that ended with one file of each kind of partial result: the first
\* file's conversion failed, the second file's write failed part-way
TerminalStatesWitness ==
    /\ main_pc = "done"
    /\ Len(docx_files) = 2
    /\ PartialSuccess(1)
    /\ ConvertOutcomes(1) = {"none"}
    /\ SkippedWriteIncomplete(2)
    /\ ~MdUntouched(2)

\* the files of output/ that the run wrote for position k, by suffix
Produced(k, step) ==
    LET ev == StepEvents(k, step)
    IN  {ev[i].target : i \in {j \in 1..Len(ev) : ev[j].outcome \in {"ok", "write_error"}}}

\* C3 as stated: after main() every input has exactly one Markdown output
\* file and at most one mind-map file.
OneMarkdownPerInput ==
    main_pc = "done" =>
        \A k \in Positions :
            /\ Cardinality(Produced(k, "write")) = 1
            /\ Cardinality(Produced(k, "convert")) <= 1

\* C3 amended: after main() every input has at most one Markdown output
\* file, output/<stem>.md, written exactly when extraction gave text, the
\* outline was generated and the file could be opened, and at most one
\* mind-map file, output/<stem>.xmind, written only after that Markdown file.
AtMostOneMarkdownPerInput ==
    main_pc = "done" =>
        \A k \in Positions :
            /\ Produced(k, "write") \subseteq {ExpectedMd(docx_files[k])}
            /\ Produced(k, "convert") \subseteq {ExpectedXmind(docx_files[k])}
            /\ Produced(k, "write") \cup Produced(k, "convert") \subseteq DOMAIN out_files
            /\ Produced(k, "write") # {} <=>
                  /\ StepEvents(k, "generate") # <<>>
                  /\ StepEvents(k, "generate")[1].outcome = "ok"
                  /\ StepEvents(k, "write")[1].outcome # "open_error"
            /\ Produced(k, "convert") # {} => WroteMarkdown(k)

\* a finished run over a file with a dotted stem that got both outputs and
\* a file that got none
AtMostOneMarkdownWitness ==
    /\ main_pc = "done"
    /\ Len(docx_files) = 2
    /\ \E k \in Positions :
          /\ docx_files[k] = NamePool[2]
          /\ Produced(k, "write") = {ExpectedMd(NamePool[2])}
          /\ Produced(k, "convert") = {ExpectedXmind(NamePool[2])}
    /\ \E k \in Positions : Produced(k, "write") = {}

\* C5: no exception leaves convert_md_to_xmind: every call returns, None on
\* failure and <output_dir>/<stem>.xmind on success.
ConvertNeverRaises ==
    \A i \in 1..Len(history) :
        history[i].step = "convert" =>
            /\ history[i].outcome # "raised"
            /\ history[i].outcome = "ok" => history[i].target = ExpectedXmind(history[i].file)

\* C6: with no *.docx file in data/, main() returns at once and the
\* filesystem is as before: output/ exists or not as it did, with the same
\* files, and no step of the pipeline ran.
NoInputsNoWrites ==
    (main_pc = "done" /\ docx_files = <<>>) =>
        /\ out_dir = fs_before.out_dir
        /\ out_files = fs_before.out_files
        /\ history = <<>>

====
